---- MODULE Spec2Model ----
(***************************************************************************)
(* Model of the breakage/exchange submission workflow: the row store with  *)
(* its row-level-security policies (schema.sql, README schema, logs       *)
(* table), and the client handlers that create, edit and decide           *)
(* submissions (lancamentos) and their items (itens).                     *)
(***************************************************************************)
EXTENDS Integers, FiniteSets, Sequences, TLC

\* ------------------------------------------------------------------ bounds
MaxLancamentos == 1
MaxItens == 2
MaxLogs == 1
MaxProdutos == 1
MaxFotos == 3
MaxLinhasCSV == 1
MaxCaracteres == 3
MaxCodigos == 2
MaxItensZip == 11
MaxFotosItem == 2
MaxEventos == 2

\* ------------------------------------------------------------- the domains
Users == {"u1", "u2", "a1", "a2"}
LIds == 1..MaxLancamentos
IIds == 1..MaxItens
PIds == 1..MaxProdutos
Status == {"pendente", "aprovado", "rejeitado"}
Terminal == {"aprovado", "rejeitado"}
Schemas == {"schema_sql", "readme"}
Mantem == "="
Observacoes == {"o1", "o2"}
ObsAdmin == {"", "c1"}
Quantidades == {1, 2}
CIds == 1..MaxCodigos

\* What an admin types into the code field of the product form.
CodigosDigitados == {"a", "A", "B"}

\* parseInt of an emptied number field is NaN; the value stands outside the
\* quantities a field can hold.
NaN == -99

\* What a quantity field can be left holding.
Digitadas == {-1, 0, 1, NaN}

\* The test "quantidade <= 0" of the forms: false for NaN.
MenorOuIgualAZero(q) == q # NaN /\ q <= 0

\* adicionarNovoItem: the new item of the editor is kept only when its
\* quantity passes the test; 0 stands for "no new item".
NovosAceitos == {0} \cup {q \in Digitadas : ~MenorOuIgualAZero(q)}

\* Product codes as the characters of their text.
CodigosZip == {<<"A">>, <<"1">>, <<"1", "_", "1">>}

\* An item of the open submission: its product code and its photo count.
ItensZip == [code : CodigosZip, photos : 0..MaxFotosItem]

\* The submissions opened on the approvals page: every one of one or two
\* items, and the long ones of MaxItensZip equal items.
ListasDeItens ==
  {<<x>> : x \in ItensZip} \cup {<<x, y>> : x, y \in ItensZip}
    \cup {[k \in 1..MaxItensZip |-> x] : x \in ItensZip}

SemEntradas == [feito |-> FALSE, nomes |-> {}]

\* RequireAuth before it is mounted; getUser is "-", "enviado" (sent),
\* "respondido" (answered, the promise not yet resolved) or "resolvido".
SemRequireAuth ==
  [montado |-> FALSE, checando |-> TRUE, autenticado |-> FALSE,
   getUser |-> "-", user |-> FALSE]

VARIABLES
  schema,       \* which of the two shipped SQL scripts configured the store
  usuarios,     \* auth.users / users: [Users -> [existe, status, perfil]]
  lancamentos,  \* table lancamentos: [LIds -> row]
  itens,        \* table itens: [IIds -> row]
  logs,         \* table public.logs: set of rows
  proxLanc,     \* next fresh lancamento id (uuid_generate_v4 never repeats)
  proxItem,     \* next fresh item id
  painel,       \* Admin page: per admin, the pending list shown on screen
  editor,       \* EditarLancamento page: per user, the loaded lancamento
  resultado,    \* what the last client handler reported to its user
  ult,          \* the last row-store request and its outcome
  produtos,     \* table produtos: [PIds -> BOOLEAN], TRUE for a stored row
  exclusao,     \* Products page: per admin, the delete dialog in progress
  remocao,      \* Users page: per admin, the delete dialog in progress
  sessao,       \* AuthProvider per browser: localStorage, loading, user
  guarda,       \* RequireAdmin per browser: mounted, checando, usuario
  rota,         \* what the last route guard rendered, and for whom
  fotos,        \* the photo URLs of the open submission: how each fetch ends
  zip,          \* what the last photo export delivered and reported
  detalhes,     \* Admin page: per admin, the expanded row and loaded itens
  arquivo,      \* what the last CSV export of the Admin page produced
  dadosCSV,     \* the rows handed to the CSV writer, header first
  csvContent,   \* the text the CSV writer produced
  codigos,      \* column codigo of the product rows: [CIds -> code or "-"]
  formulario,   \* Products page: per admin, the save dialog in progress
  currentSubmission, \* Approvals page: the items of the open submission
  entradas,     \* the entry names of the last photo archive
  storage,      \* bucket breakage-photos: the paths that hold a file
  supabaseAuth, \* supabase.auth of one browser: the session, undelivered events
  requireAuth   \* RequireAuth in that browser: its state and its getUser call

\* The product catalogue and its page.
cadastro == <<codigos, formulario>>

catalogo == <<produtos, exclusao, cadastro>>

\* The state outside the submission workflow.
\* The client-side session and the route guards.
acesso == <<sessao, guarda, rota>>

\* The exports of the admin pages.
exportacao == <<fotos, zip, detalhes, arquivo, dadosCSV, csvContent>>

\* The photo archive of the approvals page.
\* The auth client of one browser and the RequireAuth component in it.
autenticacao == <<supabaseAuth, requireAuth>>

anexos == <<currentSubmission, entradas, storage, autenticacao>>

demais == <<catalogo, remocao, acesso, exportacao, anexos>>

vars == <<schema, usuarios, lancamentos, itens, logs, proxLanc, proxItem,
          painel, editor, resultado, ult, demais>>

\* ----------------------------------------------------------------- rows
SemLancamento ==
  [existe |-> FALSE, usuario_id |-> "-", status |-> "-",
   observacoes |-> "-", observacoes_admin |-> "-"]

NovoLancamento(dono, st, obs) ==
  [existe |-> TRUE, usuario_id |-> dono, status |-> st,
   observacoes |-> obs, observacoes_admin |-> ""]

SemItem ==
  [existe |-> FALSE, lancamento_id |-> 0, produto_id |-> 0, quantidade |-> 0]

NovoItem(l, p, q) ==
  [existe |-> TRUE, lancamento_id |-> l, produto_id |-> p, quantidade |-> q]

\* An item as typed in a form: the product and the quantity.
ItemForm(p, q) == [produto_id |-> p, quantidade |-> q, upload |-> TRUE]

\* An item of the form whose photo upload is refused by the storage.
ItemFormSemUpload(p, q) ==
  [produto_id |-> p, quantidade |-> q, upload |-> FALSE]

SemExclusao == [fase |-> "fechado", produto |-> 0]

\* user: User | null, as kept by AuthProvider and in localStorage.
SemUser == [presente |-> FALSE, role |-> "-", status |-> "-"]

UserDe(u) ==
  [presente |-> TRUE, role |-> usuarios[u].perfil, status |-> usuarios[u].status]

SemSessao == [guardado |-> SemUser, loading |-> TRUE, user |-> SemUser]

SemGuarda == [montado |-> FALSE, checando |-> TRUE, usuario |-> SemUser]

SemRota ==
  [guarda |-> "-", caller |-> "-", requiredRole |-> "-", mostra |-> "-",
   autenticado |-> FALSE, perfil |-> "-", status |-> "-"]

\* How a fetch(photoUrl) can end: the image, a rejected promise (network
\* error), or a resolved response that carries an HTTP error body.
Desfechos == {"ok", "rejeitado", "http_erro"}

SemRelato == [incluidas |-> -1, pedidas |-> -1]

SemZip ==
  [rotina |-> "-", entregue |-> FALSE, arquivos |-> {}, mensagem |-> "-",
   relato |-> SemRelato]

SemDetalhe == [carregado |-> FALSE, itens |-> {}]

SemDetalhes == [emAprovacao |-> 0, itens |-> [l \in LIds |-> SemDetalhe]]

SemArquivo ==
  [feito |-> FALSE, erro |-> FALSE, cabecalhos |-> 0, dados |-> {},
   listados |-> {}, esperado |-> {}]

\* Characters of a cell: a plain one and the four the writer looks for.
Aspas == "\""

Caracteres == {"a", ",", Aspas, "\n", "\r"}

NumColunas == 2

\* The header row: fixed titles without special characters.
Cabecalho == [c \in 1..NumColunas |-> <<"a">>]

LinhaVazia == [c \in 1..NumColunas |-> <<>>]

SemCsvContent == [feito |-> FALSE, texto |-> <<>>]

SemRemocao == [fase |-> "fechado", usuario |-> "-", count |-> 0]

LogRow(u, tipo, alvo) == [usuario_id |-> u, tipo_acao |-> tipo, alvo_id |-> alvo]

SemEditor == [aberto |-> FALSE, id |-> 0, itens |-> {}]

SemResultado ==
  [op |-> "nenhuma", caller |-> "-", alvo |-> 0, antes |-> "-", ok |-> FALSE]

SemPedido ==
  [op |-> "nenhuma", tabela |-> "-", caller |-> "-", admin |-> FALSE,
   alvo |-> 0, dono |-> "-", antes |-> "-", muda |-> FALSE,
   linhas |-> 0, erro |-> FALSE]

\* ------------------------------------------------- row-level security
\* EXISTS (SELECT 1 FROM auth.users WHERE id = auth.uid()
\*         AND raw_user_meta_data->>'perfil' = 'admin')
EhAdmin(c) == usuarios[c].existe /\ usuarios[c].perfil = "admin"

\* Mutant of LancSelectUsing: the owner test is lost, every signed-in user
\* qualifies (as in the products policy USING (true)).
LancSelectUsingSemDono(c, row) == usuarios[c].existe

\* lancamentos FOR SELECT: "Usuários veem seus lançamentos" (both scripts),
\* OR-ed with the FOR ALL admin policy of schema.sql.
LancSelectUsing(c, row) == c = row.usuario_id \/ EhAdmin(c)

\* Mutant of LancInsertCheck: WITH CHECK (true).
LancInsertCheckSemDono(c, row) == usuarios[c].existe

\* lancamentos FOR INSERT WITH CHECK: the user policy, OR-ed in schema.sql
\* with the FOR ALL admin policy, whose USING doubles as its WITH CHECK.
LancInsertCheck(c, row) ==
  \/ c = row.usuario_id
  \/ schema = "schema_sql" /\ EhAdmin(c)

\* lancamentos FOR UPDATE USING, on the existing row.
LancUpdateUsing(c, row) ==
  IF schema = "schema_sql"
  THEN \/ c = row.usuario_id /\ row.status = "pendente"
       \/ EhAdmin(c)
  ELSE EhAdmin(c)

\* Mutant of LancUpdateCheck: the new row is checked for its owner only,
\* WITH CHECK (auth.uid() = usuario_id), not for its status.
LancUpdateCheckSemStatus(c, row) ==
  IF schema = "schema_sql"
  THEN c = row.usuario_id \/ EhAdmin(c)
  ELSE EhAdmin(c)

\* lancamentos FOR UPDATE WITH CHECK, on the new row: a policy written
\* without WITH CHECK applies its USING expression to the new row.
LancUpdateCheck(c, row) == LancUpdateUsing(c, row)

\* lancamentos FOR DELETE: only the FOR ALL admin policy of schema.sql.
LancDeleteUsing(c, row) == schema = "schema_sql" /\ EhAdmin(c)

\* itens FOR SELECT: through the parent lancamento.
ItemSelectUsing(c, row) ==
  /\ row.lancamento_id \in LIds
  /\ lancamentos[row.lancamento_id].existe
  /\ \/ lancamentos[row.lancamento_id].usuario_id = c
     \/ EhAdmin(c)

\* itens FOR INSERT WITH CHECK against the table lancamentos L.
ItemInsertCheck(c, L, row) ==
  IF schema = "schema_sql"
  THEN \/ /\ L[row.lancamento_id].existe
          /\ L[row.lancamento_id].usuario_id = c
          /\ L[row.lancamento_id].status = "pendente"
       \/ EhAdmin(c)
  ELSE /\ L[row.lancamento_id].existe
       /\ L[row.lancamento_id].usuario_id = c

\* itens FOR UPDATE / FOR DELETE: only the FOR ALL admin policy of schema.sql.
ItemWriteUsing(c, row) == schema = "schema_sql" /\ EhAdmin(c)

\* logs FOR INSERT WITH CHECK (auth.uid() = usuario_id).
LogInsertCheck(c, row) == c = row.usuario_id

\* logs FOR SELECT: own rows, or every row for an admin.
LogSelectUsing(c, row) == c = row.usuario_id \/ EhAdmin(c)

\* logs has no UPDATE and no DELETE policy: with RLS enabled no row qualifies.
LogWriteUsing(c, row) == FALSE

\* produtos FOR SELECT: USING (true) in both scripts.
ProdSelectUsing(c, p) == TRUE

\* produtos FOR DELETE: "Produtos gerenciados por admins" FOR ALL exists in
\* schema.sql only; the README script has the SELECT policy alone.
ProdDeleteUsing(c, p) == schema = "schema_sql" /\ EhAdmin(c)

\* ----------------------------------------------------- table constraints
\* CHECK (status IN ('pendente', 'aprovado', 'rejeitado'))
StatusValido(s) == s \in Status

\* quantidade INTEGER NOT NULL in both scripts (a NaN of the payload is
\* serialised as null); CHECK (quantidade > 0) exists in schema.sql only.
QuantidadeValida(q) == q # NaN /\ (schema = "schema_sql" => q > 0)

\* lancamentos.observacoes_admin exists in the README script only: an update
\* that names a column the table does not have is rejected as a whole.
ObservacoesAdminExiste == schema = "readme"

\* itens.tipo_operacao (TEXT NOT NULL, no default) exists in the README
\* script only.
TipoOperacaoExiste == schema = "readme"

\* Mutant of CascataItens: the foreign key declared without ON DELETE
\* CASCADE and not enforced, the items of a deleted lancamento stay.
CascataItensSemCascata(I, L) == I

\* ON DELETE CASCADE from lancamentos to itens.
CascataItens(I, L) ==
  [i \in IIds |-> IF I[i].existe /\ ~L[I[i].lancamento_id].existe
                  THEN SemItem ELSE I[i]]

\* Mutant of ProdutoRestrict: ON DELETE CASCADE in both scripts.
ProdutoRestrictNunca == FALSE

\* itens.produto_id: ON DELETE RESTRICT in schema.sql, ON DELETE CASCADE in
\* the README script.
ProdutoRestrict == schema = "schema_sql"

\* The items that reference product p.
ItensDoProduto(I, p) == {i \in IIds : I[i].existe /\ I[i].produto_id = p}

\* ON DELETE CASCADE from produtos to itens.
CascataProduto(I, P) ==
  [i \in IIds |-> IF I[i].existe /\ ~P[I[i].produto_id]
                  THEN SemItem ELSE I[i]]

\* ON DELETE CASCADE from auth.users to lancamentos and to logs.
CascataLancamentos(L, U) ==
  [l \in LIds |-> IF L[l].existe /\ ~U[L[l].usuario_id].existe
                  THEN SemLancamento ELSE L[l]]

CascataLogs(G, U) == {g \in G : U[g.usuario_id].existe}

\* ------------------------------------------------ row-store requests
\* supabase.from('logs').update({tipo_acao}) on row g
UpdateLog(c, G, g, tipo) ==
  IF g \in G /\ LogSelectUsing(c, g) /\ LogWriteUsing(c, g)
  THEN [G |-> (G \ {g}) \cup {[g EXCEPT !.tipo_acao = tipo]},
        erro |-> FALSE, linhas |-> 1]
  ELSE [G |-> G, erro |-> FALSE, linhas |-> 0]

\* supabase.from('logs').delete() on row g
DeleteLog(c, G, g) ==
  IF g \in G /\ LogSelectUsing(c, g) /\ LogWriteUsing(c, g)
  THEN [G |-> G \ {g}, erro |-> FALSE, linhas |-> 1]
  ELSE [G |-> G, erro |-> FALSE, linhas |-> 0]

Aplicar(row, patch) ==
  [row EXCEPT
     !.status = IF patch.status = Mantem THEN @ ELSE patch.status,
     !.observacoes = IF patch.observacoes = Mantem THEN @ ELSE patch.observacoes,
     !.observacoes_admin =
        IF patch.observacoes_admin = Mantem THEN @ ELSE patch.observacoes_admin]

Patch(st, obs, oa) == [status |-> st, observacoes |-> obs, observacoes_admin |-> oa]

\* supabase.from('lancamentos').update(patch).eq('id', l), as caller c on
\* table L.  A row hidden by USING is not an error: zero rows are updated.
UpdateLancamento(c, L, l, patch) ==
  IF ~(L[l].existe /\ LancSelectUsing(c, L[l]) /\ LancUpdateUsing(c, L[l]))
  THEN [L |-> L, erro |-> FALSE, linhas |-> 0]
  ELSE LET novo == Aplicar(L[l], patch) IN
       IF StatusValido(novo.status) /\ LancUpdateCheck(c, novo)
       THEN [L |-> [L EXCEPT ![l] = novo], erro |-> FALSE, linhas |-> 1]
       ELSE [L |-> L, erro |-> TRUE, linhas |-> 0]

\* supabase.from('lancamentos').insert(row): fresh id n, or an error.
InsertLancamento(c, L, n, row) ==
  IF /\ usuarios[row.usuario_id].existe
     /\ StatusValido(row.status)
     /\ LancInsertCheck(c, row)
  THEN [L |-> [L EXCEPT ![n] = row], erro |-> FALSE, linhas |-> 1]
  ELSE [L |-> L, erro |-> TRUE, linhas |-> 0]

\* supabase.from('lancamentos').delete().eq('id', l)
DeleteLancamento(c, L, l) ==
  IF L[l].existe /\ LancSelectUsing(c, L[l]) /\ LancDeleteUsing(c, L[l])
  THEN [L |-> [L EXCEPT ![l] = SemLancamento], erro |-> FALSE, linhas |-> 1]
  ELSE [L |-> L, erro |-> FALSE, linhas |-> 0]

\* supabase.from('itens').insert(row) with the parent looked up in L.
\* tipo says whether the payload names tipo_operacao: naming a column the
\* table lacks and omitting a NOT NULL column are both errors.
InsertItem(c, L, I, n, row, tipo) ==
  IF /\ tipo <=> TipoOperacaoExiste
     /\ row.lancamento_id \in LIds
     /\ L[row.lancamento_id].existe
     /\ row.produto_id \in PIds
     /\ produtos[row.produto_id]
     /\ QuantidadeValida(row.quantidade)
     /\ ItemInsertCheck(c, L, row)
  THEN [I |-> [I EXCEPT ![n] = row], erro |-> FALSE, linhas |-> 1]
  ELSE [I |-> I, erro |-> TRUE, linhas |-> 0]

\* supabase.from('itens').update({quantidade, ...}).eq('id', i); tipo says
\* whether the payload names tipo_operacao.
UpdateItem(c, I, i, q, tipo) ==
  IF tipo /\ ~TipoOperacaoExiste
  THEN [I |-> I, erro |-> TRUE, linhas |-> 0]
  ELSE IF ~(I[i].existe /\ ItemSelectUsing(c, I[i]) /\ ItemWriteUsing(c, I[i]))
  THEN [I |-> I, erro |-> FALSE, linhas |-> 0]
  ELSE IF QuantidadeValida(q) /\ ItemWriteUsing(c, [I[i] EXCEPT !.quantidade = q])
       THEN [I |-> [I EXCEPT ![i].quantidade = q], erro |-> FALSE, linhas |-> 1]
       ELSE [I |-> I, erro |-> TRUE, linhas |-> 0]

\* supabase.from('itens').delete().eq('id', i)
DeleteItem(c, I, i) ==
  IF I[i].existe /\ ItemSelectUsing(c, I[i]) /\ ItemWriteUsing(c, I[i])
  THEN [I |-> [I EXCEPT ![i] = SemItem], erro |-> FALSE, linhas |-> 1]
  ELSE [I |-> I, erro |-> FALSE, linhas |-> 0]

\* supabase.from('produtos').delete().eq('id', p): a row hidden by the
\* policies is skipped; a referenced row raises the foreign-key error when
\* the reference is RESTRICT and takes its items with it when it is CASCADE.
DeleteProduto(c, P, I, p) ==
  IF ~(P[p] /\ ProdSelectUsing(c, p) /\ ProdDeleteUsing(c, p))
  THEN [P |-> P, I |-> I, erro |-> FALSE, linhas |-> 0]
  ELSE IF ItensDoProduto(I, p) # {} /\ ProdutoRestrict
       THEN [P |-> P, I |-> I, erro |-> TRUE, linhas |-> 0]
       ELSE [P |-> [P EXCEPT ![p] = FALSE],
             I |-> CascataProduto(I, [P EXCEPT ![p] = FALSE]),
             erro |-> FALSE, linhas |-> 1]

\* Mutant of CodigoUnico: codigo declared without UNIQUE in both scripts.
CodigoUnicoSemRestricao(C, p, code) == TRUE

\* codigo TEXT NOT NULL UNIQUE exists in schema.sql only: no other row p of
\* the table holds the code.
CodigoUnico(C, p, code) ==
  schema = "schema_sql" => \A q \in CIds \ {p} : C[q] # code

\* supabase.from('produtos').insert({codigo}): the FOR ALL policy of
\* schema.sql is the only one that admits a write; the row takes a free id.
InsertProduto(c, C, code) ==
  LET livres == {p \in CIds : C[p] = "-"} IN
  IF ProdDeleteUsing(c, 0) /\ CodigoUnico(C, 0, code)
  THEN [C |-> [C EXCEPT ![CHOOSE p \in livres : \A q \in livres : p <= q] = code],
        erro |-> FALSE, linhas |-> 1]
  ELSE [C |-> C, erro |-> TRUE, linhas |-> 0]

\* supabase.from('produtos').update({codigo}).eq('id', p)
UpdateProduto(c, C, p, code) ==
  IF ~(C[p] # "-" /\ ProdSelectUsing(c, p) /\ ProdDeleteUsing(c, p))
  THEN [C |-> C, erro |-> FALSE, linhas |-> 0]
  ELSE IF CodigoUnico(C, p, code)
       THEN [C |-> [C EXCEPT ![p] = code], erro |-> FALSE, linhas |-> 1]
       ELSE [C |-> C, erro |-> TRUE, linhas |-> 0]

SemFormulario == [fase |-> "fechado", code |-> "-"]

\* supabase.from('logs').insert(row); the rows are kept as a set.
InsertLog(c, G, row) ==
  IF usuarios[row.usuario_id].existe /\ LogInsertCheck(c, row)
  THEN [G |-> G \cup {row}, erro |-> FALSE, linhas |-> 1]
  ELSE [G |-> G, erro |-> TRUE, linhas |-> 0]

\* ------------------------------------------------------------------ Init
UsuariosIniciais ==
  [u \in Users |-> [existe |-> TRUE, status |-> "active",
                    perfil |-> IF u \in {"a1", "a2"} THEN "admin" ELSE "usuario"]]

Init ==
  /\ schema \in Schemas
  /\ usuarios = UsuariosIniciais
  /\ lancamentos = [l \in LIds |-> SemLancamento]
  /\ itens = [i \in IIds |-> SemItem]
  /\ logs = {}
  /\ proxLanc = 1
  /\ proxItem = 1
  /\ painel = [u \in Users |-> {}]
  /\ editor = [u \in Users |-> SemEditor]
  /\ resultado = SemResultado
  /\ ult = SemPedido
  /\ produtos = [p \in PIds |-> TRUE]
  /\ exclusao = [u \in Users |-> SemExclusao]
  /\ remocao = [u \in Users |-> SemRemocao]
  /\ sessao = [u \in Users |-> SemSessao]
  /\ guarda = [u \in Users |-> SemGuarda]
  /\ rota = SemRota
  /\ fotos = <<>>
  /\ zip = SemZip
  /\ detalhes = [u \in Users |-> SemDetalhes]
  /\ arquivo = SemArquivo
  /\ dadosCSV = <<Cabecalho>>
  /\ csvContent = SemCsvContent
  /\ codigos = [p \in CIds |-> "-"]
  /\ formulario = [u \in Users |-> SemFormulario]
  /\ currentSubmission = <<>>
  /\ entradas = SemEntradas
  /\ storage = {}
  /\ supabaseAuth = [user |-> FALSE, eventos |-> <<>>, ultimo |-> "-"]
  /\ requireAuth = SemRequireAuth

\* ------------------------------------------------------- client handlers
Autenticado(u) == usuarios[u].existe

\* Room left in the bounded tables.
LogCabe(row) == row \in logs \/ Cardinality(logs) < MaxLogs

Res(op, c, alvo, antes, ok) ==
  [op |-> op, caller |-> c, alvo |-> alvo, antes |-> antes, ok |-> ok]

StatusDe(L, l) == IF L[l].existe THEN L[l].status ELSE "-"

Menor(S) == CHOOSE x \in S : \A y \in S : x <= y

\* The item loop of finalizarLancamento: one upload and one insert per item
\* of the form, an item whose upload or insert fails is skipped and the loop
\* goes on.
RECURSIVE InserirItensIgnorandoErros(_, _, _, _, _, _)
InserirItensIgnorandoErros(c, L, I, n, l, qs) ==
  IF qs = <<>> THEN [I |-> I, n |-> n]
  ELSE LET r == IF ~Head(qs).upload
                THEN [I |-> I, erro |-> TRUE, linhas |-> 0]
                ELSE InsertItem(c, L, I, n,
                                NovoItem(l, Head(qs).produto_id,
                                         Head(qs).quantidade), FALSE) IN
       InserirItensIgnorandoErros(c, L, r.I, IF r.erro THEN n ELSE n + 1,
                                  l, Tail(qs))

\* finalizarLancamento: insert the lancamento as 'pendente' for usuarioId,
\* then the items; the callers pass the signed-in user's id.
finalizarLancamento(c, obs, qs) ==
  /\ Autenticado(c)
  /\ proxLanc <= MaxLancamentos
  /\ proxItem + Len(qs) - 1 <= MaxItens
  /\ LET r == InsertLancamento(c, lancamentos, proxLanc,
                               NovoLancamento(c, "pendente", obs)) IN
     IF r.erro
     THEN /\ resultado' = Res("finalizarLancamento", c, 0, "-", FALSE)
          /\ UNCHANGED <<lancamentos, itens, proxLanc, proxItem>>
     ELSE LET ri == InserirItensIgnorandoErros(c, r.L, itens, proxItem,
                                               proxLanc, qs) IN
          /\ lancamentos' = r.L
          /\ itens' = ri.I
          /\ proxLanc' = proxLanc + 1
          /\ proxItem' = ri.n
          /\ resultado' = Res("finalizarLancamento", c, proxLanc, "-", TRUE)
  /\ UNCHANGED <<demais, schema, usuarios, logs, painel, editor, ult>>

\* handleAdicionarItem + handleFinalizarGrupo of ProductSelect: an item
\* enters the list only when its quantity passes the test, and the list is
\* handed to finalizarLancamento with the signed-in user's id.
handleFinalizarGrupo(c, q) ==
  /\ ~MenorOuIgualAZero(q)
  /\ finalizarLancamento(c, "o1", <<ItemForm(1, q)>>)

\* An item of the NewSubmission form: it passed addCurrentItemToList, so it
\* has a product, a quantity above zero and at least one photo; upload
\* tells whether the storage is reachable when its photos are sent.
SubmissionItem(p, q, n, ok) ==
  [produto_id |-> p, quantidade |-> q, photos |-> n, upload |-> ok]

\* `submissions/${submissionId}/${code}_${capacity}_${quantity}UN_${i + 1}.${ext}`
\* for the photos of one item; the product stands for its code and capacity,
\* and the photos of the form share one extension.
Caminhos(l, item) ==
  {<<l, item.produto_id, item.quantidade, i>> : i \in 1..item.photos}

\* The item loop of onSubmit: upload the photos of the item, then insert the
\* item; the first upload or insert that fails ends the loop with an error.
\* An upload to a path that holds a file is refused (upsert is off).
RECURSIVE EnviarItens(_, _, _, _, _, _, _)
EnviarItens(c, L, I, n, S, l, items) ==
  IF items = <<>> THEN [I |-> I, n |-> n, S |-> S, erro |-> FALSE]
  ELSE LET item == Head(items)
           r == InsertItem(c, L, I, n,
                           NovoItem(l, item.produto_id, item.quantidade),
                           TipoOperacaoExiste) IN
       IF ~item.upload \/ Caminhos(l, item) \cap S # {}
       THEN [I |-> I, n |-> n, S |-> S, erro |-> TRUE]
       ELSE IF r.erro
       THEN [I |-> I, n |-> n, S |-> S \cup Caminhos(l, item), erro |-> TRUE]
       ELSE EnviarItens(c, L, r.I, n + 1, S \cup Caminhos(l, item), l,
                        Tail(items))

\* onSubmit of NewSubmission: insert the submission as pending for the
\* signed-in user, then the items; the activity row it sends to logs names
\* columns that table does not have and its outcome is not looked at.
onSubmit(c, items) ==
  /\ Autenticado(c)
  /\ Len(items) > 0
  /\ proxLanc <= MaxLancamentos
  /\ proxItem + Len(items) - 1 <= MaxItens
  /\ LET r == InsertLancamento(c, lancamentos, proxLanc,
                               NovoLancamento(c, "pendente", "")) IN
     IF r.erro
     THEN /\ resultado' = Res("onSubmit", c, 0, "-", FALSE)
          /\ UNCHANGED <<lancamentos, itens, proxLanc, proxItem, storage>>
     ELSE LET e == EnviarItens(c, r.L, itens, proxItem, storage, proxLanc,
                               items) IN
          /\ lancamentos' = r.L
          /\ itens' = e.I
          /\ storage' = e.S
          /\ proxLanc' = proxLanc + 1
          /\ proxItem' = e.n
          /\ resultado' = Res("onSubmit", c, proxLanc, "-", ~e.erro)
  /\ UNCHANGED <<catalogo, remocao, acesso, exportacao, currentSubmission,
                 entradas, autenticacao, schema, usuarios, logs, painel,
                 editor, ult>>

\* The rows a list query for status 'pendente' returns to caller c.
Pendentes(c) ==
  {l \in LIds : /\ lancamentos[l].existe
                /\ LancSelectUsing(c, lancamentos[l])
                /\ lancamentos[l].status = "pendente"}

\* verificarAdmin + buscarLancamentosPendentes: the page loads the pending
\* list only for a signed-in user whose perfil is 'admin'.  The rows of the
\* new list come without their itens.
buscarLancamentosPendentes(a) ==
  /\ Autenticado(a)
  /\ usuarios[a].perfil = "admin"
  /\ painel' = [painel EXCEPT ![a] = Pendentes(a)]
  /\ detalhes' = [detalhes EXCEPT ![a].itens = [l \in LIds |-> SemDetalhe]]
  /\ UNCHANGED <<anexos, catalogo, remocao, acesso, fotos, zip, arquivo, dadosCSV,
                 csvContent, schema, usuarios, lancamentos, itens, logs,
                 proxLanc, proxItem, editor, resultado, ult>>

\* atualizarStatusLancamento: update by id only, then drop the row from the
\* list on screen and close the expanded row; observacoes_admin is sent only
\* when a text was typed.
atualizarStatusLancamento(a, l, novoStatus, obsAdm) ==
  /\ Autenticado(a)
  /\ l \in painel[a]
  /\ LET r == IF obsAdm # "" /\ ~ObservacoesAdminExiste
              THEN [L |-> lancamentos, erro |-> TRUE, linhas |-> 0]
              ELSE UpdateLancamento(a, lancamentos, l,
                      Patch(novoStatus, Mantem,
                            IF obsAdm = "" THEN Mantem ELSE obsAdm))
         antes == StatusDe(lancamentos, l) IN
     /\ lancamentos' = r.L
     /\ painel' = IF r.erro THEN painel
                  ELSE [painel EXCEPT ![a] = @ \ {l}]
     /\ detalhes' = IF r.erro THEN detalhes
                    ELSE [detalhes EXCEPT ![a].emAprovacao = 0]
     /\ resultado' = Res("atualizarStatusLancamento", a, l, antes, ~r.erro)
  /\ UNCHANGED <<anexos, catalogo, remocao, acesso, fotos, zip, arquivo, dadosCSV,
                 csvContent, schema, usuarios, itens, logs, proxLanc,
                 proxItem, editor, ult>>

TipoAcao(st) == IF st = "aprovado" THEN "aprovar" ELSE "rejeitar"

\* handleApproval: update status and comments by id only, insert the log row
\* (its outcome is not looked at), report success and reload the list.
handleApproval(a, l, approved, comments) ==
  /\ Autenticado(a)
  /\ l \in painel[a]
  /\ LET st == IF approved THEN "aprovado" ELSE "rejeitado"
         r == UpdateLancamento(a, lancamentos, l, Patch(st, Mantem, comments))
         antes == StatusDe(lancamentos, l)
         g == InsertLog(a, logs, LogRow(a, TipoAcao(st), l)) IN
     /\ LogCabe(LogRow(a, TipoAcao(st), l))
     /\ lancamentos' = r.L
     /\ logs' = IF r.erro THEN logs ELSE g.G
     /\ painel' = IF r.erro THEN painel
                  ELSE [painel EXCEPT ![a] =
                          {x \in LIds : /\ r.L[x].existe
                                        /\ LancSelectUsing(a, r.L[x])
                                        /\ r.L[x].status = "pendente"}]
     /\ resultado' = Res("handleApproval", a, l, antes, ~r.erro)
  /\ UNCHANGED <<demais, schema, usuarios, itens, proxLanc, proxItem, editor, ult>>

\* The item rows of lancamento l that a select returns to caller c.
ItensVisiveis(c, l) ==
  {i \in IIds : /\ itens[i].existe
                /\ itens[i].lancamento_id = l
                /\ ItemSelectUsing(c, itens[i])}

\* carregarDados of EditarLancamento: the row must be returned by the select,
\* the user must be its owner or an admin, its status must be 'pendente',
\* and the select of the itens, which names tipo_operacao, must not fail.
carregarDados(u, l) ==
  /\ Autenticado(u)
  /\ lancamentos[l].existe
  /\ LancSelectUsing(u, lancamentos[l])
  /\ lancamentos[l].usuario_id = u \/ usuarios[u].perfil = "admin"
  /\ lancamentos[l].status = "pendente"
  /\ TipoOperacaoExiste
  /\ editor' = [editor EXCEPT
        ![u] = [aberto |-> TRUE, id |-> l, itens |-> ItensVisiveis(u, l)]]
  /\ UNCHANGED <<demais, schema, usuarios, lancamentos, itens, logs, proxLanc,
                 proxItem, painel, resultado, ult>>

\* Step 3 of salvarAlteracoes: delete the items marked for removal, in
\* order, stopping at the first error.
RECURSIVE RemoverItens(_, _, _)
RemoverItens(c, I, S) ==
  IF S = {} THEN [I |-> I, erro |-> FALSE]
  ELSE LET i == Menor(S)
           r == DeleteItem(c, I, i) IN
       IF r.erro THEN [I |-> I, erro |-> TRUE]
       ELSE RemoverItens(c, r.I, S \ {i})

\* Step 4 of salvarAlteracoes: update the kept items, in order, stopping at
\* the first error.
RECURSIVE AtualizarItens(_, _, _, _)
AtualizarItens(c, I, S, qs) ==
  IF S = {} THEN [I |-> I, erro |-> FALSE]
  ELSE LET i == Menor(S)
           r == UpdateItem(c, I, i, qs[i], TRUE) IN
       IF r.erro THEN [I |-> I, erro |-> TRUE]
       ELSE AtualizarItens(c, r.I, S \ {i}, qs)

\* salvarAlteracoes: (1) at least one item must remain, (2) update
\* observacoes, (3) delete, (4) update, (5) insert the new item, (6) log
\* 'editar'; any error reported by a call ends the handler with an error.
\* novo = 0 stands for "no new item", otherwise it is the new quantity, of
\* product np.
salvarAlteracoes(u, obs, remover, qs, np, novo) ==
  /\ Autenticado(u)
  /\ editor[u].aberto
  /\ novo # 0 => proxItem <= MaxItens
  /\ LET l == editor[u].id
         antes == StatusDe(lancamentos, l)
         manter == editor[u].itens \ remover
         r2 == UpdateLancamento(u, lancamentos, l, Patch(Mantem, obs, Mantem))
         r3 == RemoverItens(u, itens, remover)
         r4 == AtualizarItens(u, r3.I, manter, qs)
         r5 == IF novo = 0 THEN [I |-> r4.I, erro |-> FALSE, linhas |-> 0]
               ELSE InsertItem(u, r2.L, r4.I, proxItem, NovoItem(l, np, novo),
                               TRUE)
         falha == IF manter = {} /\ novo = 0 THEN 1
                  ELSE IF r2.erro THEN 2
                  ELSE IF r3.erro THEN 3
                  ELSE IF r4.erro THEN 4
                  ELSE IF r5.erro THEN 5
                  ELSE 0 IN
     /\ LogCabe(LogRow(u, "editar", l))
     /\ lancamentos' = IF falha = 1 THEN lancamentos ELSE r2.L
     /\ itens' = CASE falha \in {1, 2} -> itens
                   [] falha = 3 -> r3.I
                   [] falha \in {4, 5} -> r4.I
                   [] OTHER -> r5.I
     /\ proxItem' = IF falha = 0 /\ novo # 0 THEN proxItem + 1 ELSE proxItem
     /\ logs' = IF falha = 0 THEN InsertLog(u, logs, LogRow(u, "editar", l)).G
                ELSE logs
     /\ editor' = IF falha = 0 THEN [editor EXCEPT ![u] = SemEditor] ELSE editor
     /\ resultado' = Res("salvarAlteracoes", u, l, antes, falha = 0)
  /\ UNCHANGED <<demais, schema, usuarios, proxLanc, painel, ult>>

\* handleDeleteUser, first await: self-deletion is refused before any call;
\* then the user's submissions are counted.
handleDeleteUserContar(a, u) ==
  /\ Autenticado(a)
  /\ usuarios[a].perfil = "admin"
  /\ remocao[a].fase = "fechado"
  /\ usuarios[u].existe
  /\ u # a
  /\ LET count == Cardinality({l \in LIds :
                      /\ lancamentos[l].existe
                      /\ LancSelectUsing(a, lancamentos[l])
                      /\ lancamentos[l].usuario_id = u}) IN
     remocao' = [remocao EXCEPT
                   ![a] = [fase |-> "contado", usuario |-> u, count |-> count]]
  /\ UNCHANGED <<anexos, catalogo, acesso, exportacao, schema, usuarios, lancamentos, itens, logs,
                 proxLanc, proxItem, painel, editor, resultado, ult>>

\* handleDeleteUser, second await: set the user inactive when the count was
\* above zero, delete the user row otherwise.  Deleting the user row
\* cascades to the rows that reference it.
handleDeleteUser(a) ==
  /\ Autenticado(a)
  /\ remocao[a].fase = "contado"
  /\ LET u == remocao[a].usuario
         U == IF ~usuarios[u].existe THEN usuarios
              ELSE IF remocao[a].count > 0
              THEN [usuarios EXCEPT ![u].status = "inactive"]
              ELSE [usuarios EXCEPT ![u].existe = FALSE] IN
     /\ usuarios' = U
     /\ lancamentos' = CascataLancamentos(lancamentos, U)
     /\ itens' = CascataItens(itens, CascataLancamentos(lancamentos, U))
     /\ logs' = CascataLogs(logs, U)
     /\ remocao' = [remocao EXCEPT ![a] = SemRemocao]
     /\ resultado' = Res("handleDeleteUser", a, 0, "-", TRUE)
  /\ UNCHANGED <<anexos, catalogo, acesso, exportacao, schema, proxLanc, proxItem, painel, editor, ult>>

\* excluirLancamento: (1) select the row by id, (2) the user must be its
\* owner or an admin and the status 'pendente', (3) log 'excluir', (4) delete
\* by id; only an error returned by the delete call is reported as a failure.
excluirLancamento(u, l) ==
  /\ Autenticado(u)
  /\ LogCabe(LogRow(u, "excluir", l))
  /\ LET antes == StatusDe(lancamentos, l)
         permitido == /\ lancamentos[l].existe
                      /\ LancSelectUsing(u, lancamentos[l])
                      /\ \/ lancamentos[l].usuario_id = u
                         \/ usuarios[u].perfil = "admin"
                      /\ lancamentos[l].status = "pendente"
         g == InsertLog(u, logs, LogRow(u, "excluir", l))
         r == DeleteLancamento(u, lancamentos, l) IN
     IF ~permitido
     THEN /\ resultado' = Res("excluirLancamento", u, l, antes, FALSE)
          /\ UNCHANGED <<lancamentos, itens, logs>>
     ELSE /\ logs' = g.G
          /\ lancamentos' = r.L
          /\ itens' = CascataItens(itens, r.L)
          /\ resultado' = Res("excluirLancamento", u, l, antes, ~r.erro)
  /\ UNCHANGED <<demais, schema, usuarios, proxLanc, proxItem, painel, editor, ult>>

\* handleDeleteProduct, first await: count the items that reference the
\* product; a count above zero ends the handler with "Cannot delete product".
handleDeleteProductContar(a, p) ==
  /\ Autenticado(a)
  /\ usuarios[a].perfil = "admin"
  /\ exclusao[a].fase = "fechado"
  /\ produtos[p]
  /\ LET count == Cardinality({i \in ItensDoProduto(itens, p) :
                                ItemSelectUsing(a, itens[i])}) IN
     IF count > 0
     THEN /\ resultado' = Res("handleDeleteProduct", a, p, "contar", FALSE)
          /\ UNCHANGED exclusao
     ELSE /\ exclusao' = [exclusao EXCEPT
                            ![a] = [fase |-> "contado", produto |-> p]]
          /\ UNCHANGED resultado
  /\ UNCHANGED <<anexos, schema, usuarios, lancamentos, itens, logs, proxLanc,
                 proxItem, painel, editor, ult, produtos, cadastro, remocao,
                 acesso, exportacao>>

\* handleDeleteProduct, second await: delete the product by id; only an
\* error returned by the call is reported as a failure.
handleDeleteProductExcluir(a) ==
  /\ Autenticado(a)
  /\ exclusao[a].fase = "contado"
  /\ LET p == exclusao[a].produto
         r == DeleteProduto(a, produtos, itens, p) IN
     /\ produtos' = r.P
     /\ itens' = r.I
     /\ exclusao' = [exclusao EXCEPT ![a] = SemExclusao]
     /\ resultado' = Res("handleDeleteProduct", a, p, "excluir", ~r.erro)
  /\ UNCHANGED <<anexos, schema, usuarios, lancamentos, logs, proxLanc, proxItem,
                 painel, editor, ult, cadastro, remocao, acesso,
                 exportacao>>

\* formData.code.trim().toUpperCase()
ToUpperCase(code) == IF code = "a" THEN "A" ELSE code

\* Everything but the product codes and the save dialog.
foraDoCadastro ==
  <<anexos, schema, usuarios, lancamentos, itens, logs, proxLanc, proxItem, painel,
    editor, ult, produtos, exclusao, remocao, acesso, exportacao>>

\* handleSaveProduct for a new product, first await: look for a row with the
\* normalised code; a row found ends the handler with "Product code already
\* exists".
handleSaveProductVerificar(a, digitado) ==
  /\ Autenticado(a)
  /\ usuarios[a].perfil = "admin"
  /\ formulario[a].fase = "fechado"
  /\ LET code == ToUpperCase(digitado)
         existingProduct == \E p \in CIds : codigos[p] = code /\ ProdSelectUsing(a, p) IN
     IF existingProduct
     THEN /\ resultado' = Res("handleSaveProductVerificar", a, 0, code, FALSE)
          /\ UNCHANGED formulario
     ELSE /\ formulario' = [formulario EXCEPT
                              ![a] = [fase |-> "verificado", code |-> code]]
          /\ UNCHANGED resultado
  /\ UNCHANGED <<foraDoCadastro, codigos>>

\* handleSaveProduct for a new product, second await: insert the row; an
\* error of the insert is reported, and the dialog closes on success only.
handleSaveProductInserir(a) ==
  /\ Autenticado(a)
  /\ formulario[a].fase = "verificado"
  /\ \E p \in CIds : codigos[p] = "-"
  /\ LET code == formulario[a].code
         r == InsertProduto(a, codigos, code) IN
     /\ codigos' = r.C
     /\ formulario' = [formulario EXCEPT ![a] = SemFormulario]
     /\ resultado' = Res("handleSaveProductInserir", a, 0, code, ~r.erro)
  /\ UNCHANGED foraDoCadastro

\* handleSaveProduct for an existing product: update by id, without a look
\* at the other rows' codes.
handleSaveProductAtualizar(a, p, digitado) ==
  /\ Autenticado(a)
  /\ usuarios[a].perfil = "admin"
  /\ formulario[a].fase = "fechado"
  /\ codigos[p] # "-"
  /\ LET code == ToUpperCase(digitado)
         r == UpdateProduto(a, codigos, p, code) IN
     /\ codigos' = r.C
     /\ resultado' = Res("handleSaveProductAtualizar", a, p, code, ~r.erro)
  /\ UNCHANGED <<foraDoCadastro, formulario>>

\* A number in a template literal: its decimal digits.
RECURSIVE Decimal(_)
Decimal(n) ==
  LET digito == <<"0", "1", "2", "3", "4", "5", "6", "7", "8", "9">>[(n % 10) + 1] IN
  IF n < 10 THEN <<digito>> ELSE Decimal(n \div 10) \o <<digito>>

\* Mutant of fileName: the item index is left out of the name.
fileNameSemItem(itemIndex, code, photoIndex) ==
  code \o <<"_">> \o Decimal(photoIndex + 1) \o <<".", "j", "p", "g">>

\* `Item${itemIndex + 1}_${item.product.code}_${photoIndex + 1}.jpg`
fileName(itemIndex, code, photoIndex) ==
  <<"I", "t", "e", "m">> \o Decimal(itemIndex + 1) \o <<"_">> \o code
    \o <<"_">> \o Decimal(photoIndex + 1) \o <<".", "j", "p", "g">>

\* Everything but the photo archive.
foraDosAnexos ==
  <<schema, usuarios, lancamentos, itens, logs, proxLanc, proxItem, painel,
    editor, resultado, ult, catalogo, remocao, acesso, exportacao, storage,
    autenticacao>>

\* The approvals page opens a submission: its items become
\* currentSubmission.items.
setCurrentSubmission(its) ==
  /\ currentSubmission' = its
  /\ entradas' = SemEntradas
  /\ UNCHANGED foraDosAnexos

\* The (item, photo) pairs of a submission, as positions.
Referencias(S) ==
  {r \in (1..Len(S)) \X (1..MaxFotosItem) : r[2] <= S[r[1]].photos}

\* downloadAllImages when every fetch succeeds: zip.file(fileName, blob) for
\* every photo of every item; a name used twice keeps one entry.
zipFile ==
  /\ currentSubmission # <<>>
  /\ entradas' =
       [feito |-> TRUE,
        nomes |-> {fileName(r[1] - 1, currentSubmission[r[1]].code, r[2] - 1) :
                     r \in Referencias(currentSubmission)}]
  /\ UNCHANGED <<foraDosAnexos, currentSubmission>>

\* Everything but the auth client and RequireAuth.
foraDaAutenticacao ==
  <<schema, usuarios, lancamentos, itens, logs, proxLanc, proxItem, painel,
    editor, resultado, ult, catalogo, remocao, acesso, exportacao,
    currentSubmission, entradas, storage>>

\* RequireAuth is mounted: its effect calls getUser and subscribes to
\* onAuthStateChange.
verificarAutenticacao ==
  /\ ~requireAuth.montado
  /\ requireAuth' = [SemRequireAuth EXCEPT !.montado = TRUE,
                                           !.getUser = "enviado"]
  /\ supabaseAuth' = [supabaseAuth EXCEPT !.eventos = <<>>, !.ultimo = "-"]
  /\ UNCHANGED foraDaAutenticacao

\* supabase.auth.getUser() is answered from the session of that moment.
getUserResponde ==
  /\ requireAuth.getUser = "enviado"
  /\ requireAuth' = [requireAuth EXCEPT !.getUser = "respondido",
                                        !.user = supabaseAuth.user]
  /\ UNCHANGED <<foraDaAutenticacao, supabaseAuth>>

\* The await of getUser resumes: setAutenticado(!!user); setChecando(false).
getUserResolve ==
  /\ requireAuth.getUser = "respondido"
  /\ requireAuth' = [requireAuth EXCEPT !.getUser = "resolvido",
                                        !.autenticado = requireAuth.user,
                                        !.checando = FALSE]
  /\ UNCHANGED <<foraDaAutenticacao, supabaseAuth>>

\* The user signs in or out (in this tab or another): the session changes
\* and the event is queued for the subscribed listeners.
mudarSessao(entra) ==
  /\ supabaseAuth.user # entra
  /\ Len(supabaseAuth.eventos) < MaxEventos
  /\ supabaseAuth' =
       [supabaseAuth EXCEPT
          !.user = entra,
          !.eventos = IF requireAuth.montado
                      THEN Append(@, IF entra THEN "SIGNED_IN"
                                     ELSE "SIGNED_OUT")
                      ELSE @]
  /\ UNCHANGED <<foraDaAutenticacao, requireAuth>>

\* The listener of RequireAuth gets the next event:
\* setAutenticado(!!session?.user); setChecando(false).
onAuthStateChange ==
  /\ requireAuth.montado
  /\ supabaseAuth.eventos # <<>>
  /\ requireAuth' = [requireAuth EXCEPT
                       !.autenticado = Head(supabaseAuth.eventos) = "SIGNED_IN",
                       !.checando = FALSE]
  /\ supabaseAuth' = [supabaseAuth EXCEPT !.eventos = Tail(@),
                                          !.ultimo = Head(supabaseAuth.eventos)]
  /\ UNCHANGED foraDaAutenticacao

\* The route is left: the component unmounts and unsubscribes.
desmontar ==
  /\ requireAuth.montado
  /\ requireAuth' = SemRequireAuth
  /\ supabaseAuth' = [supabaseAuth EXCEPT !.eventos = <<>>, !.ultimo = "-"]
  /\ UNCHANGED foraDaAutenticacao

\* handleSaveUser: an admin sets another user's role and status; an admin
\* cannot set the own account inactive.
handleSaveUser(a, u, role, status) ==
  /\ Autenticado(a)
  /\ usuarios[a].perfil = "admin"
  /\ usuarios[u].existe
  /\ ~(u = a /\ status = "inactive")
  /\ usuarios' = [usuarios EXCEPT ![u].perfil = role, ![u].status = status]
  /\ resultado' = Res("handleSaveUser", a, 0, "-", TRUE)
  /\ UNCHANGED <<anexos, catalogo, remocao, acesso, exportacao, schema, lancamentos, itens, logs,
                 proxLanc, proxItem, painel, editor, ult>>

\* Everything but the session and the guards.
foraDoAcesso ==
  <<anexos, catalogo, remocao, exportacao, schema, usuarios, lancamentos, itens, logs, proxLanc,
    proxItem, painel, editor, resultado, ult>>

\* AuthProvider's effect on the initial load: the user kept in localStorage
\* under 'breakage_user' becomes the session user, then loading ends.
AuthProviderEffect(u) ==
  /\ sessao[u].loading
  /\ sessao' = [sessao EXCEPT ![u].user = sessao[u].guardado,
                              ![u].loading = FALSE]
  /\ UNCHANGED <<foraDoAcesso, guarda, rota>>

\* The page is loaded again: the React state starts over, localStorage stays.
Recarregar(u) ==
  /\ ~sessao[u].loading
  /\ sessao' = [sessao EXCEPT ![u].user = SemUser, ![u].loading = TRUE]
  /\ guarda' = [guarda EXCEPT ![u] = SemGuarda]
  /\ UNCHANGED <<foraDoAcesso, rota>>

\* login: the users row is selected with status 'active'; its role and
\* status are copied into the session user and into localStorage.
login(u) ==
  /\ ~sessao[u].loading
  /\ IF usuarios[u].existe /\ usuarios[u].status = "active"
     THEN sessao' = [sessao EXCEPT ![u].user = UserDe(u),
                                  ![u].guardado = UserDe(u)]
     ELSE UNCHANGED sessao
  /\ UNCHANGED <<foraDoAcesso, guarda, rota>>

\* logout: the session user and localStorage are cleared.
logout(u) ==
  /\ ~sessao[u].loading
  /\ sessao[u].user.presente
  /\ sessao' = [sessao EXCEPT ![u].user = SemUser, ![u].guardado = SemUser]
  /\ UNCHANGED <<foraDoAcesso, guarda, rota>>

\* isAdmin: user?.role === 'admin', on the session user.
isAdmin(u) == sessao[u].user.presente /\ sessao[u].user.role = "admin"

\* What a guard rendered for caller u, next to the stored account of u at
\* that moment.
Rota(g, u, requiredRole, mostra) ==
  [guarda |-> g, caller |-> u, requiredRole |-> requiredRole,
   mostra |-> mostra,
   autenticado |-> sessao[u].guardado.presente,
   perfil |-> IF usuarios[u].existe THEN usuarios[u].perfil ELSE "-",
   status |-> IF usuarios[u].existe THEN usuarios[u].status ELSE "-"]

\* ProtectedRoute: spinner while loading, /login without a session user,
\* /unauthorized when 'admin' is required and isAdmin() is false, the
\* children otherwise.
ProtectedRoute(u, requiredRole) ==
  /\ rota' = Rota("ProtectedRoute", u, requiredRole,
                  IF sessao[u].loading THEN "spinner"
                  ELSE IF ~sessao[u].user.presente THEN "/login"
                  ELSE IF requiredRole = "admin" /\ ~isAdmin(u)
                       THEN "/unauthorized"
                  ELSE "children")
  /\ UNCHANGED <<foraDoAcesso, sessao, guarda>>

\* RequireAdmin is mounted: checando starts TRUE, usuario null.
RequireAdminMontar(u) ==
  /\ ~guarda[u].montado
  /\ guarda' = [guarda EXCEPT ![u] = [SemGuarda EXCEPT !.montado = TRUE]]
  /\ UNCHANGED <<foraDoAcesso, sessao, rota>>

\* RequireAdmin's effect, run once after mounting: supabase.auth.getUser()
\* answers with the stored account of the signed-in user, or with no user.
RequireAdminVerificar(u) ==
  /\ guarda[u].montado
  /\ guarda[u].checando
  /\ guarda' = [guarda EXCEPT
        ![u].checando = FALSE,
        ![u].usuario = IF sessao[u].guardado.presente /\ usuarios[u].existe
                       THEN UserDe(u) ELSE SemUser]
  /\ UNCHANGED <<foraDoAcesso, sessao, rota>>

\* RequireAdmin renders: spinner while checando, Navigate to "/" when there
\* is no usuario or its perfil is not 'admin', the children otherwise.
RequireAdmin(u) ==
  /\ guarda[u].montado
  /\ rota' = Rota("RequireAdmin", u, "admin",
                  IF guarda[u].checando THEN "spinner"
                  ELSE IF ~guarda[u].usuario.presente
                          \/ guarda[u].usuario.role # "admin"
                       THEN "/"
                  ELSE "children")
  /\ UNCHANGED <<foraDoAcesso, sessao, guarda>>

\* RequireAuth on the route "/", where RequireAdmin sends its caller: the
\* children for a signed-in user, Navigate to /login otherwise.
RequireAuth(u) ==
  /\ rota.caller = u
  /\ rota.mostra = "/"
  /\ guarda' = [guarda EXCEPT ![u] = SemGuarda]
  /\ rota' = Rota("RequireAuth", u, "-",
                  IF sessao[u].guardado.presente /\ usuarios[u].existe
                  THEN "children" ELSE "/login")
  /\ UNCHANGED <<foraDoAcesso, sessao>>

\* Everything but the Admin page's list details and its CSV export.
foraDoCSV ==
  <<anexos, catalogo, remocao, acesso, fotos, zip, dadosCSV, csvContent, schema, usuarios, lancamentos,
    itens, logs, proxLanc, proxItem, painel, editor, resultado, ult>>

\* What one call expandirLancamento(l) does to the page state D of admin a,
\* when the handler that calls it saw row E expanded: the expanded row is
\* collapsed, or l is expanded and its itens are selected and stored on
\* the row of the list.
Expandir(a, D, E, l) ==
  IF l = E
  THEN [D EXCEPT !.emAprovacao = 0]
  ELSE [D EXCEPT !.emAprovacao = l,
                 !.itens[l] = IF l \in painel[a]
                              THEN [carregado |-> TRUE,
                                    itens |-> ItensVisiveis(a, l)]
                              ELSE @]

expandirLancamento(a, l) ==
  /\ Autenticado(a)
  /\ l \in painel[a]
  /\ detalhes' = [detalhes EXCEPT
                    ![a] = Expandir(a, detalhes[a], detalhes[a].emAprovacao, l)]
  /\ UNCHANGED <<foraDoCSV, arquivo>>

\* The loop of exportarTodosParaCSV over the rows without itens, latest
\* row first; every call compares with the expanded row E the handler saw.
RECURSIVE ExpandirTodos(_, _, _, _)
ExpandirTodos(a, D, E, S) ==
  IF S = {} THEN D
  ELSE LET l == CHOOSE x \in S : \A y \in S : x >= y IN
       ExpandirTodos(a, Expandir(a, D, E, l), E, S \ {l})

\* The data rows of the CSV: one per item of every listed row, from the
\* itens stored on the rows of the list.
LinhasDeDados(a, D) ==
  {<<l, i>> \in painel[a] \X IIds : i \in D.itens[l].itens}

\* exportarTodosParaCSV: an empty list is an error; the rows without itens
\* are expanded; then the handler tests, on the list it was called with,
\* that every row has its itens, and throws otherwise; else it writes the
\* header and the data rows.
exportarTodosParaCSV(a) ==
  /\ Autenticado(a)
  /\ LET D == detalhes[a]
         semDetalhes == {l \in painel[a] : ~D.itens[l].carregado}
         temTodosDetalhes == \A l \in painel[a] : D.itens[l].carregado
         esperado == {<<l, i>> \in painel[a] \X IIds :
                        itens[i].existe /\ itens[i].lancamento_id = l}
         falha == [SemArquivo EXCEPT !.feito = TRUE, !.erro = TRUE,
                                      !.listados = painel[a],
                                      !.esperado = esperado] IN
     IF painel[a] = {}
     THEN arquivo' = falha /\ UNCHANGED detalhes
     ELSE /\ detalhes' = [detalhes EXCEPT
                 ![a] = ExpandirTodos(a, D, D.emAprovacao, semDetalhes)]
          /\ arquivo' = IF ~temTodosDetalhes THEN falha
                        ELSE [falha EXCEPT !.erro = FALSE,
                                           !.cabecalhos = 1,
                                           !.dados = LinhasDeDados(a, D)]
  /\ UNCHANGED foraDoCSV

\* Everything but the photo export.
foraDasFotos ==
  <<anexos, catalogo, remocao, acesso, detalhes, arquivo, dadosCSV, csvContent,
    schema, usuarios,
    lancamentos, itens, logs, proxLanc, proxItem, painel, editor, resultado,
    ult>>

\* fetchSubmissionDetail: a submission is opened; fs tells, for each of its
\* photo URLs in order, how a fetch of that URL ends.
fetchSubmissionDetail(fs) ==
  /\ fotos' = fs
  /\ zip' = SemZip
  /\ UNCHANGED foraDasFotos

Indices(fs, S) == {i \in 1..Len(fs) : fs[i] \in S}

\* downloadAllImages: one promise per photo, fetch -> blob -> zip.file; the
\* archive is generated and saved after Promise.all, which rejects as soon
\* as one promise rejects.  A response with an HTTP error status resolves
\* and its body is filed like an image.
downloadAllImages ==
  /\ zip' = IF Indices(fotos, {"rejeitado"}) # {}
            THEN [SemZip EXCEPT !.rotina = "downloadAllImages",
                                !.mensagem = "Error downloading images"]
            ELSE [SemZip EXCEPT !.rotina = "downloadAllImages",
                                !.entregue = TRUE,
                                !.arquivos = Indices(fotos, Desfechos),
                                !.mensagem = "Download complete"]
  /\ UNCHANGED <<foraDasFotos, fotos>>

\* baixarTodasImagens: nothing to do for an item without photos; otherwise
\* the photos are fetched one after the other and the first rejected fetch
\* ends the routine in its catch block, before the archive is generated.
baixarTodasImagens ==
  /\ zip' = IF Len(fotos) = 0
            THEN [SemZip EXCEPT !.rotina = "baixarTodasImagens",
                                !.mensagem = "Este item nao possui fotos."]
            ELSE IF Indices(fotos, {"rejeitado"}) # {}
            THEN [SemZip EXCEPT !.rotina = "baixarTodasImagens",
                                !.mensagem = "Erro ao baixar imagens."]
            ELSE [SemZip EXCEPT !.rotina = "baixarTodasImagens",
                                !.entregue = TRUE,
                                !.arquivos = Indices(fotos, Desfechos)]
  /\ UNCHANGED <<foraDasFotos, fotos>>

\* Mutant of Dobrar: the embedded quotes are left single.
DobrarSemDobrar(cell) == cell

\* cell.replace(/"/g, '""')
RECURSIVE Dobrar(_)
Dobrar(cell) ==
  IF cell = <<>> THEN <<>>
  ELSE (IF Head(cell) = Aspas THEN <<Aspas, Aspas>> ELSE <<Head(cell)>>)
       \o Dobrar(Tail(cell))

\* /[,"\n\r]/.test(cell) ? `"${cell.replace(/"/g, '""')}"` : cell
EscaparCelula(cell) ==
  IF \E i \in 1..Len(cell) : cell[i] \in {",", Aspas, "\n", "\r"}
  THEN <<Aspas>> \o Dobrar(cell) \o <<Aspas>>
  ELSE cell

\* Array.prototype.join(sep) over a sequence of texts.
RECURSIVE Join(_, _)
Join(ts, sep) ==
  IF ts = <<>> THEN <<>>
  ELSE IF Len(ts) = 1 THEN ts[1]
  ELSE ts[1] \o <<sep>> \o Join(Tail(ts), sep)

\* dadosCSV.map(row => row.map(escape).join(',')).join('\n')
ConverterParaCSV(rows) ==
  Join([r \in 1..Len(rows) |->
          Join([c \in 1..Len(rows[r]) |-> EscaparCelula(rows[r][c])], ",")],
       "\n")

\* Everything but the CSV writer.
foraDoTexto ==
  <<anexos, catalogo, remocao, acesso, fotos, zip, detalhes, arquivo, schema,
    usuarios, lancamentos, itens, logs, proxLanc, proxItem, painel, editor,
    resultado, ult>>

TotalCaracteres(rows) ==
  LET RECURSIVE Soma(_)
      Soma(r) == IF r > Len(rows) THEN 0
                 ELSE LET RECURSIVE SomaCel(_)
                          SomaCel(c) == IF c > NumColunas THEN 0
                                        ELSE Len(rows[r][c]) + SomaCel(c + 1)
                      IN SomaCel(1) + Soma(r + 1)
  IN Soma(2)

\* dadosCSV.push([...]): one more data row, its cells still empty.
dadosCSVpush ==
  /\ ~csvContent.feito
  /\ Len(dadosCSV) < 1 + MaxLinhasCSV
  /\ dadosCSV' = Append(dadosCSV, LinhaVazia)
  /\ UNCHANGED <<foraDoTexto, csvContent>>

\* The text of a field (observacoes, motivo, nome, ...) grows by one
\* character: cell c of the last data row.
Digitar(c, ch) ==
  /\ ~csvContent.feito
  /\ Len(dadosCSV) > 1
  /\ TotalCaracteres(dadosCSV) < MaxCaracteres
  /\ dadosCSV' = [dadosCSV EXCEPT ![Len(dadosCSV)][c] = Append(@, ch)]
  /\ UNCHANGED <<foraDoTexto, csvContent>>

\* The conversion of dadosCSV to the CSV text.
Converter ==
  /\ ~csvContent.feito
  /\ csvContent' = [feito |-> TRUE, texto |-> ConverterParaCSV(dadosCSV)]
  /\ UNCHANGED <<foraDoTexto, dadosCSV>>

\* ----------------------------------------- requests sent to the row store
\* Any signed-in client can send these to the store's REST interface; the
\* policies above decide each one.  ult records the request and its outcome.
Pedido(op, tabela, c, alvo, dono, antes, muda, r) ==
  [op |-> op, tabela |-> tabela, caller |-> c, admin |-> EhAdmin(c),
   alvo |-> alvo, dono |-> dono, antes |-> antes, muda |-> muda,
   linhas |-> r.linhas, erro |-> r.erro]

DonoDe(L, l) == IF l \in LIds /\ L[l].existe THEN L[l].usuario_id ELSE "-"

PaiDe(i) == itens[i].lancamento_id

PedidoInsertLancamento(c, dono, st) ==
  /\ Autenticado(c)
  /\ proxLanc <= MaxLancamentos
  /\ LET r == InsertLancamento(c, lancamentos, proxLanc,
                               NovoLancamento(dono, st, "o1")) IN
     /\ lancamentos' = r.L
     /\ proxLanc' = IF r.erro THEN proxLanc ELSE proxLanc + 1
     /\ ult' = Pedido("insert", "lancamentos", c,
                      IF r.erro THEN 0 ELSE proxLanc, dono, "-", FALSE, r)
  /\ UNCHANGED <<demais, schema, usuarios, itens, logs, proxItem, painel, editor,
                 resultado>>

PedidoSelectLancamento(c, l) ==
  /\ Autenticado(c)
  /\ LET visto == lancamentos[l].existe /\ LancSelectUsing(c, lancamentos[l]) IN
     ult' = Pedido("select", "lancamentos", c, l, DonoDe(lancamentos, l),
                   StatusDe(lancamentos, l), FALSE,
                   [linhas |-> IF visto THEN 1 ELSE 0, erro |-> FALSE])
  /\ UNCHANGED <<demais, schema, usuarios, lancamentos, itens, logs, proxLanc,
                 proxItem, painel, editor, resultado>>

PedidoUpdateLancamento(c, l, st, obs) ==
  /\ Autenticado(c)
  /\ LET r == UpdateLancamento(c, lancamentos, l, Patch(st, obs, Mantem)) IN
     /\ lancamentos' = r.L
     /\ ult' = Pedido("update", "lancamentos", c, l, DonoDe(lancamentos, l),
                      StatusDe(lancamentos, l),
                      st # Mantem /\ st # StatusDe(lancamentos, l), r)
  /\ UNCHANGED <<demais, schema, usuarios, itens, logs, proxLanc, proxItem, painel,
                 editor, resultado>>

PedidoDeleteLancamento(c, l) ==
  /\ Autenticado(c)
  /\ LET r == DeleteLancamento(c, lancamentos, l) IN
     /\ lancamentos' = r.L
     /\ itens' = CascataItens(itens, r.L)
     /\ ult' = Pedido("delete", "lancamentos", c, l, DonoDe(lancamentos, l),
                      StatusDe(lancamentos, l), FALSE, r)
  /\ UNCHANGED <<demais, schema, usuarios, logs, proxLanc, proxItem, painel, editor,
                 resultado>>

PedidoInsertItem(c, l, p, q) ==
  /\ Autenticado(c)
  /\ proxItem <= MaxItens
  /\ LET r == InsertItem(c, lancamentos, itens, proxItem, NovoItem(l, p, q),
                          TipoOperacaoExiste) IN
     /\ itens' = r.I
     /\ proxItem' = IF r.erro THEN proxItem ELSE proxItem + 1
     /\ ult' = Pedido("insert", "itens", c, l, DonoDe(lancamentos, l),
                      StatusDe(lancamentos, l), FALSE, r)
  /\ UNCHANGED <<demais, schema, usuarios, lancamentos, logs, proxLanc, painel,
                 editor, resultado>>

PedidoSelectItem(c, i) ==
  /\ Autenticado(c)
  /\ LET visto == itens[i].existe /\ ItemSelectUsing(c, itens[i]) IN
     ult' = Pedido("select", "itens", c, i, DonoDe(lancamentos, PaiDe(i)),
                   "-", FALSE,
                   [linhas |-> IF visto THEN 1 ELSE 0, erro |-> FALSE])
  /\ UNCHANGED <<demais, schema, usuarios, lancamentos, itens, logs, proxLanc,
                 proxItem, painel, editor, resultado>>

PedidoUpdateItem(c, i, q) ==
  /\ Autenticado(c)
  /\ LET r == UpdateItem(c, itens, i, q, FALSE) IN
     /\ itens' = r.I
     /\ ult' = Pedido("update", "itens", c, i, DonoDe(lancamentos, PaiDe(i)),
                      "-", FALSE, r)
  /\ UNCHANGED <<demais, schema, usuarios, lancamentos, logs, proxLanc, proxItem,
                 painel, editor, resultado>>

PedidoDeleteItem(c, i) ==
  /\ Autenticado(c)
  /\ LET r == DeleteItem(c, itens, i) IN
     /\ itens' = r.I
     /\ ult' = Pedido("delete", "itens", c, i, DonoDe(lancamentos, PaiDe(i)),
                      "-", FALSE, r)
  /\ UNCHANGED <<demais, schema, usuarios, lancamentos, logs, proxLanc, proxItem,
                 painel, editor, resultado>>

PedidoDeleteProduto(c, p) ==
  /\ Autenticado(c)
  /\ LET r == DeleteProduto(c, produtos, itens, p) IN
     /\ produtos' = r.P
     /\ itens' = r.I
     /\ ult' = Pedido("delete", "produtos", c, p, "-", "-", FALSE, r)
  /\ UNCHANGED <<anexos, schema, usuarios, lancamentos, logs, proxLanc, proxItem,
                 painel, editor, resultado, exclusao, cadastro, remocao,
                 acesso, exportacao>>

TiposAcao == {"aprovar", "rejeitar", "editar", "excluir"}

PedidoInsertLog(c, u, tipo, alvo) ==
  /\ Autenticado(c)
  /\ LogCabe(LogRow(u, tipo, alvo))
  /\ LET r == InsertLog(c, logs, LogRow(u, tipo, alvo)) IN
     /\ logs' = r.G
     /\ ult' = Pedido("insert", "logs", c, alvo, u, "-", FALSE, r)
  /\ UNCHANGED <<demais, schema, usuarios, lancamentos, itens, proxLanc, proxItem,
                 painel, editor, resultado>>

PedidoUpdateLog(c, g, tipo) ==
  /\ Autenticado(c)
  /\ g \in logs
  /\ LET r == UpdateLog(c, logs, g, tipo) IN
     /\ logs' = r.G
     /\ ult' = Pedido("update", "logs", c, g.alvo_id, g.usuario_id, "-",
                      FALSE, r)
  /\ UNCHANGED <<demais, schema, usuarios, lancamentos, itens, proxLanc, proxItem,
                 painel, editor, resultado>>

PedidoDeleteLog(c, g) ==
  /\ Autenticado(c)
  /\ g \in logs
  /\ LET r == DeleteLog(c, logs, g) IN
     /\ logs' = r.G
     /\ ult' = Pedido("delete", "logs", c, g.alvo_id, g.usuario_id, "-",
                      FALSE, r)
  /\ UNCHANGED <<demais, schema, usuarios, lancamentos, itens, proxLanc, proxItem,
                 painel, editor, resultado>>

\* ------------------------------------------------------- specifications
\* The decision workflow: a user files a submission, admins load the pending
\* list and decide from it.
Next ==
  \/ \E c \in {"u1", "u2"}, obs \in Observacoes :
        finalizarLancamento(c, obs, <<ItemForm(1, 1)>>)
  \/ \E a \in Users : buscarLancamentosPendentes(a)
  \/ \E a \in Users, l \in LIds, st \in Terminal, oa \in ObsAdmin :
        atualizarStatusLancamento(a, l, st, oa)
  \/ \E a \in Users, l \in LIds, ap \in BOOLEAN, cm \in ObsAdmin :
        handleApproval(a, l, ap, cm)

Spec == Init /\ [][Next]_vars

\* The row store under its policies, driven by arbitrary requests.
NextRLS ==
  \/ \E c \in Users, dono \in Users, st \in Status :
        PedidoInsertLancamento(c, dono, st)
  \/ \E c \in Users, l \in LIds : PedidoSelectLancamento(c, l)
  \/ \E c \in Users, l \in LIds, st \in Status \cup {Mantem},
        obs \in {Mantem, "o2"} : PedidoUpdateLancamento(c, l, st, obs)
  \/ \E c \in Users, l \in LIds : PedidoDeleteLancamento(c, l)
  \/ \E c \in Users, l \in LIds, q \in Quantidades : PedidoInsertItem(c, l, 1, q)
  \/ \E c \in Users, i \in IIds : PedidoSelectItem(c, i)
  \/ \E c \in Users, i \in IIds, q \in Quantidades : PedidoUpdateItem(c, i, q)
  \/ \E c \in Users, i \in IIds : PedidoDeleteItem(c, i)

SpecRLS == Init /\ [][NextRLS]_vars

\* The edit screen: the owner (or an admin) opens a pending submission and
\* saves, while an admin may decide it in between.
NextEdicao ==
  \/ \E qs \in {<<ItemForm(1, 1)>>, <<ItemForm(1, 1), ItemForm(1, 2)>>} : finalizarLancamento("u1", "o1", qs)
  \/ \E u \in {"u1", "a2"}, l \in LIds : carregarDados(u, l)
  \/ \E u \in {"u1", "a2"}, obs \in Observacoes, novo \in {0, 1} :
        \E remover \in SUBSET editor[u].itens :
          \E qs \in [editor[u].itens -> Quantidades] :
            salvarAlteracoes(u, obs, remover, qs, 1, novo)
  \/ buscarLancamentosPendentes("a1")
  \/ \E l \in LIds, st \in Terminal : atualizarStatusLancamento("a1", l, st, "")

SpecEdicao == Init /\ [][NextEdicao]_vars

\* The audit trail: log rows written by decisions and by direct requests,
\* and the user administration that can remove a user row.
NextLogs ==
  \/ finalizarLancamento("u1", "o1", <<ItemForm(1, 1)>>)
  \/ \E a \in {"a1", "a2"} : buscarLancamentosPendentes(a)
  \/ \E a \in {"a1", "a2"}, l \in LIds, ap \in BOOLEAN :
        handleApproval(a, l, ap, "")
  \/ \E c \in {"u1", "a2"}, u \in {"u1", "a2"}, t \in {"editar", "excluir"},
        l \in LIds :
        PedidoInsertLog(c, u, t, l)
  \/ \E c \in {"u1", "a1"}, g \in logs, t \in {"editar", "excluir"} :
        PedidoUpdateLog(c, g, t)
  \/ \E c \in {"u1", "a1"}, g \in logs : PedidoDeleteLog(c, g)
  \/ \E u \in {"u1", "a2"} : handleDeleteUserContar("a1", u)
  \/ handleDeleteUser("a1")

SpecLogs == Init /\ [][NextLogs]_vars

\* The life cycle of a submission and its items: created, edited, deleted by
\* its owner or an admin, or removed with its owner's account.
NextCiclo ==
  \/ \E c \in {"u1", "u2"}, qs \in {<<ItemForm(1, 1)>>, <<ItemForm(1, 1), ItemForm(1, 2)>>} :
        finalizarLancamento(c, "o1", qs)
  \/ \E u \in {"u1", "a1"}, l \in LIds : carregarDados(u, l)
  \/ \E u \in {"u1", "a1"}, novo \in {0, 1} :
        \E remover \in SUBSET editor[u].itens :
          \E qs \in [editor[u].itens -> Quantidades] :
            salvarAlteracoes(u, "o2", remover, qs, 1, novo)
  \/ \E u \in {"u1", "u2", "a1"}, l \in LIds : excluirLancamento(u, l)
  \/ \E c \in {"u1", "a1"}, l \in LIds : PedidoDeleteLancamento(c, l)
  \/ \E c \in {"u1", "a1"}, l \in LIds : PedidoInsertItem(c, l, 1, 1)
  \/ \E u \in {"u1", "u2"} : handleDeleteUserContar("a1", u)
  \/ handleDeleteUser("a1")

SpecCiclo == Init /\ [][NextCiclo]_vars

\* The product catalogue: users file items that reference products while
\* admins delete products from the Products page or by a direct request.
NextProdutos ==
  \/ \E c \in {"u1", "u2"}, p \in PIds :
        finalizarLancamento(c, "o1", <<ItemForm(p, 1)>>)
  \/ \E c \in {"u1", "a1"}, l \in LIds, p \in PIds :
        PedidoInsertItem(c, l, p, 1)
  \/ \E a \in Users, p \in PIds : handleDeleteProductContar(a, p)
  \/ \E a \in Users : handleDeleteProductExcluir(a)
  \/ \E c \in Users, p \in PIds : PedidoDeleteProduto(c, p)
  \/ \E c \in {"u1", "a1"}, l \in LIds : PedidoDeleteLancamento(c, l)

SpecProdutos == Init /\ [][NextProdutos]_vars

\* The Users page: an admin deletes a user while users file submissions.
NextUsuarios ==
  \/ \E c \in {"u1", "u2"}, obs \in Observacoes :
        finalizarLancamento(c, obs, <<ItemForm(1, 1)>>)
  \/ \E a \in Users, u \in Users : handleDeleteUserContar(a, u)
  \/ \E a \in Users : handleDeleteUser(a)
  \/ \E a \in {"a1"} : buscarLancamentosPendentes(a)
  \/ \E a \in {"a1"}, l \in LIds, st \in Terminal :
        atualizarStatusLancamento(a, l, st, "")

SpecUsuarios == Init /\ [][NextUsuarios]_vars

\* Sessions and route guards: a user signs in and opens pages while an admin
\* edits that user's role and status.
NextAcesso ==
  \/ \E u \in {"a2"} : AuthProviderEffect(u)
  \/ \E u \in {"a2"} : Recarregar(u)
  \/ \E u \in {"a2"} : login(u)
  \/ \E u \in {"a2"} : logout(u)
  \/ \E role \in {"admin", "usuario"}, status \in {"active", "inactive"} :
        handleSaveUser("a1", "a2", role, status)
  \/ \E u \in {"a2"}, rr \in {"admin", "user", "-"} : ProtectedRoute(u, rr)
  \/ \E u \in {"a2"} : RequireAdminMontar(u)
  \/ \E u \in {"a2"} : RequireAdminVerificar(u)
  \/ \E u \in {"a2"} : RequireAdmin(u)
  \/ \E u \in {"a2"} : RequireAuth(u)

SpecAcesso == Init /\ [][NextAcesso]_vars

\* The photo export of an open submission.
ListasDeFotos == UNION {[1..n -> Desfechos] : n \in 0..MaxFotos}

NextFotos ==
  \/ \E fs \in ListasDeFotos : fetchSubmissionDetail(fs)
  \/ downloadAllImages
  \/ baixarTodasImagens

SpecFotos == Init /\ [][NextFotos]_vars

\* The CSV export of the Admin page over the pending list.
NextExportacao ==
  \/ \E qs \in {<<ItemForm(1, 1)>>, <<ItemForm(1, 1), ItemForm(1, 2)>>} :
        finalizarLancamento("u1", "o1", qs)
  \/ \E l \in LIds : PedidoInsertItem("u1", l, 1, 1)
  \/ \E a \in {"a1", "a2"} : buscarLancamentosPendentes(a)
  \/ \E a \in {"a1", "a2"}, l \in LIds : expandirLancamento(a, l)
  \/ \E a \in {"a1", "a2"} : exportarTodosParaCSV(a)
  \/ \E l \in LIds, st \in Terminal : atualizarStatusLancamento("a1", l, st, "")

SpecExportacao == Init /\ [][NextExportacao]_vars

\* The CSV writer over rows of free-text cells.
NextCSV ==
  \/ dadosCSVpush
  \/ \E c \in 1..NumColunas, ch \in Caracteres : Digitar(c, ch)
  \/ Converter

SpecCSV == Init /\ [][NextCSV]_vars

\* Creating and editing items with every quantity a field can hold.
NextQuantidade ==
  \/ \E q \in Digitadas \ {NaN} : handleFinalizarGrupo("u1", q)
  \/ \E l \in LIds : carregarDados("u1", l)
  \/ \E obs \in Observacoes, novo \in NovosAceitos :
        \E remover \in SUBSET editor["u1"].itens :
          \E qs \in [editor["u1"].itens -> Digitadas] :
            salvarAlteracoes("u1", obs, remover, qs, 1, novo)
  \/ \E l \in LIds, q \in Digitadas : PedidoInsertItem("u1", l, 1, q)
  \/ \E c \in {"u1", "a1"}, i \in IIds, q \in Digitadas :
        PedidoUpdateItem(c, i, q)

SpecQuantidade == Init /\ [][NextQuantidade]_vars

\* Creating a submission whose uploads may fail, and editing it.
NextCriacao ==
  \/ \E f1, f2 \in {ItemForm(1, 1), ItemFormSemUpload(1, 1)} :
        \E qs \in {<<f1>>, <<f1, f2>>} : finalizarLancamento("u1", "o1", qs)
  \/ \E f1, f2 \in {SubmissionItem(1, q, n, ok) :
                        q \in Quantidades, n \in 1..MaxFotosItem,
                        ok \in BOOLEAN} :
        \E items \in {<<f1>>, <<f1, f2>>} : onSubmit("u1", items)
  \/ \E u \in {"u1", "a1"}, l \in LIds : carregarDados(u, l)
  \/ \E u \in {"u1", "a1"}, novo \in NovosAceitos :
        \E remover \in SUBSET editor[u].itens :
          \E qs \in [editor[u].itens -> {1}] :
            salvarAlteracoes(u, "o2", remover, qs, 1, novo)

SpecCriacao == Init /\ [][NextCriacao]_vars

\* Deleting a submission, through the history page and by a request, while
\* an admin decides it.
NextExclusao ==
  \/ \E obs \in Observacoes : finalizarLancamento("u1", obs, <<ItemForm(1, 1)>>)
  \/ buscarLancamentosPendentes("a1")
  \/ \E l \in LIds, st \in Terminal, oa \in ObsAdmin :
        atualizarStatusLancamento("a1", l, st, oa)
  \/ \E u \in {"u1", "u2", "a1"}, l \in LIds : excluirLancamento(u, l)
  \/ \E c \in {"u1", "u2", "a1"}, l \in LIds : PedidoDeleteLancamento(c, l)

SpecExclusao == Init /\ [][NextExclusao]_vars

\* The photo archive of an opened submission.
NextNomes ==
  \/ \E its \in ListasDeItens : setCurrentSubmission(its)
  \/ zipFile

SpecNomes == Init /\ [][NextNomes]_vars

\* RequireAuth while the user signs in and out.
NextAutenticacao ==
  \/ verificarAutenticacao
  \/ getUserResponde
  \/ getUserResolve
  \/ \E entra \in BOOLEAN : mudarSessao(entra)
  \/ onAuthStateChange
  \/ desmontar

SpecAutenticacao == Init /\ [][NextAutenticacao]_vars

\* Two admins on the Products page.
NextCadastro ==
  \/ \E a \in {"a1", "a2"}, d \in CodigosDigitados :
        handleSaveProductVerificar(a, d)
  \/ \E a \in {"a1", "a2"} : handleSaveProductInserir(a)
  \/ \E a \in {"a1", "a2"}, p \in CIds, d \in CodigosDigitados :
        handleSaveProductAtualizar(a, p, d)

SpecCadastro == Init /\ [][NextCadastro]_vars

\* ---------------------------------------------------------------- claims
Decisoes == {"atualizarStatusLancamento", "handleApproval"}

\* C1: a submission whose stored status is approved or rejected never has
\* its status changed again, whatever sequence of decisions is issued.
C1_TerminalNuncaMuda ==
  [][\A l \in LIds :
       (/\ lancamentos[l].existe
        /\ lancamentos[l].status \in Terminal
        /\ lancamentos'[l].existe)
       => lancamentos'[l].status = lancamentos[l].status]_vars

\* C2: of two decisions issued by two admins on the same pending submission
\* only the first persists; the decision that finds the submission already
\* decided is not reported as a success.
C2_SegundaDecisaoEhConflito ==
  (resultado.op \in Decisoes /\ resultado.antes \in Terminal)
  => ~resultado.ok

\* C3: a submission's status is changed only by an admin; an update that
\* would change the status, sent by a caller who is not an admin (the owner
\* of a pending submission included), updates no row and leaves the stored
\* status as it was.
C3_StatusSoPorAdmin ==
  [][/\ \A l \in LIds :
          (/\ lancamentos[l].existe
           /\ lancamentos'[l].existe
           /\ lancamentos'[l].status # lancamentos[l].status)
          => ult'.admin
     /\ (/\ ult'.op = "update"
         /\ ult'.tabela = "lancamentos"
         /\ ult'.muda
         /\ ~ult'.admin)
        => (ult'.linhas = 0 /\ lancamentos' = lancamentos)]_vars

\* C3 witness: the owner of a pending submission asked for a status change
\* and the request was refused.
C3_Witness ==
  /\ ult.op = "update"
  /\ ult.tabela = "lancamentos"
  /\ ult.muda
  /\ ~ult.admin
  /\ ult.caller = ult.dono
  /\ ult.antes = "pendente"
  /\ ult.erro
  /\ lancamentos[ult.alvo].status = "pendente"

C5_SalvarAposDecisaoFalha ==
  [][(/\ resultado'.op = "salvarAlteracoes"
      /\ resultado'.antes \in Terminal
      /\ ~EhAdmin(resultado'.caller))
     => (/\ ~resultado'.ok
         /\ lancamentos' = lancamentos
         /\ itens' = itens)]_vars

\* C6: an item insert by a caller who is not an admin is accepted only when
\* the caller owns the parent submission and that submission is pending;
\* otherwise it is refused and stores nothing.
C6_InsertItemSoPendenteProprio ==
  (/\ ult.op = "insert"
   /\ ult.tabela = "itens"
   /\ ~ult.admin
   /\ ~(ult.dono = ult.caller /\ ult.antes = "pendente"))
  => (ult.erro /\ ult.linhas = 0)

\* C7: a submission created by a caller who is not an admin is stored with
\* status pending.
C7_CriadoPendente ==
  (/\ ult.op = "insert"
   /\ ult.tabela = "lancamentos"
   /\ ~ult.admin
   /\ ult.linhas = 1)
  => lancamentos[ult.alvo].status = "pendente"

C9_DecisaoTemLog ==
  (/\ resultado.op \in Decisoes
   /\ resultado.ok
   /\ lancamentos[resultado.alvo].existe
   /\ lancamentos[resultado.alvo].status \in Terminal)
  => LogRow(resultado.caller,
            TipoAcao(lancamentos[resultado.alvo].status),
            resultado.alvo) \in logs

\* C10: the log is append-only: a step never removes or alters a log row.
C10_LogsSoCrescem == [][logs \subseteq logs']_vars

\* C11: every stored item references a stored submission, after any sequence
\* of create, edit and delete operations; a step that removes a submission
\* removes its items with it.
C11_ItemTemLancamento ==
  \A i \in IIds :
    itens[i].existe =>
      /\ itens[i].lancamento_id \in LIds
      /\ lancamentos[itens[i].lancamento_id].existe

\* C11 witness: a submission that had items was deleted by an admin and no
\* item is left.
C11_Witness ==
  /\ ult.op = "delete"
  /\ ult.tabela = "lancamentos"
  /\ ult.linhas = 1
  /\ proxItem > 1
  /\ ~lancamentos[ult.alvo].existe
  /\ \A i \in IIds : ~itens[i].existe

C13_SoApagaSemLancamentos ==
  [][\A u \in Users :
       (/\ usuarios[u].existe
        /\ \E l \in LIds : lancamentos[l].existe /\ lancamentos[l].usuario_id = u)
       => /\ usuarios'[u].existe
          /\ \A l \in LIds :
               (lancamentos[l].existe /\ lancamentos[l].usuario_id = u)
               => lancamentos'[l].existe]_vars

\* C14: every access decision of ProtectedRoute reflects the role and the
\* status the user has in the store at the moment of the decision: the
\* children are rendered only for a user who is active, and for a page that
\* requires 'admin' only for a user whose stored role is admin.
C14_DecisaoRefleteConta ==
  (rota.guarda = "ProtectedRoute" /\ rota.mostra = "children")
  => /\ rota.status = "active"
     /\ rota.requiredRole = "admin" => rota.perfil = "admin"

\* C19: a guard of an admin-only page renders the page only for a signed-in
\* caller whose stored role is admin; a caller who is not signed in gets
\* the spinner or a redirect that ends at /login, and a signed-in caller
\* who is not an admin gets the spinner or a redirect away from the page.
C19_PaginaAdminSoParaAdmin ==
  /\ (rota.guarda \in {"ProtectedRoute", "RequireAdmin"}
      /\ rota.requiredRole = "admin")
     => /\ rota.mostra = "children"
           => (rota.autenticado /\ rota.perfil = "admin")
        /\ ~rota.autenticado => rota.mostra \in {"spinner", "/login", "/"}
  /\ (rota.guarda = "RequireAuth" /\ ~rota.autenticado)
     => rota.mostra = "/login"

\* C15: a photo export always delivers an archive; the archive holds
\* exactly the photos whose fetch succeeded, and the routine reports how
\* many photos were included and how many were requested.
C15_ZipSemAsFalhas ==
  (zip.rotina # "-" /\ Len(fotos) > 0)
  => /\ zip.entregue
     /\ zip.arquivos = Indices(fotos, {"ok"})
     /\ zip.relato = [incluidas |-> Cardinality(Indices(fotos, {"ok"})),
                      pedidas |-> Len(fotos)]

\* C16: a CSV export over a list of M >= 1 submissions that hold N items in
\* total produces one header row and exactly one data row for each of the
\* N items.
C16_UmaLinhaPorItem ==
  (arquivo.feito /\ arquivo.listados # {})
  => /\ ~arquivo.erro
     /\ arquivo.cabecalhos = 1
     /\ arquivo.dados = arquivo.esperado

\* Reading a CSV text by the standard rules (RFC 4180): fields separated by
\* commas, records by line breaks (LF or CRLF); a field that starts with a
\* double quote runs to its closing double quote, a doubled double quote
\* inside it standing for one.  modo is "inicio" at the start of a field,
\* "simples" inside a bare field, "aspas" inside a quoted field and
\* "fecha" right after a double quote met inside a quoted field.
RECURSIVE Ler(_, _, _, _, _, _)
Ler(t, i, rows, row, cell, modo) ==
  IF i > Len(t) THEN Append(rows, Append(row, cell))
  ELSE LET ch == t[i] IN
    IF modo = "aspas"
    THEN IF ch = Aspas THEN Ler(t, i + 1, rows, row, cell, "fecha")
         ELSE Ler(t, i + 1, rows, row, Append(cell, ch), "aspas")
    ELSE IF modo = "fecha" /\ ch = Aspas
    THEN Ler(t, i + 1, rows, row, Append(cell, Aspas), "aspas")
    ELSE IF modo = "inicio" /\ ch = Aspas
    THEN Ler(t, i + 1, rows, row, cell, "aspas")
    ELSE IF ch = ","
    THEN Ler(t, i + 1, rows, Append(row, cell), <<>>, "inicio")
    ELSE IF ch = "\n"
    THEN Ler(t, i + 1, Append(rows, Append(row, cell)), <<>>, <<>>, "inicio")
    ELSE IF ch = "\r" /\ i < Len(t) /\ t[i + 1] = "\n"
    THEN Ler(t, i + 1, rows, row, cell, modo)
    ELSE Ler(t, i + 1, rows, row, Append(cell, ch), "simples")

LerCSV(t) == Ler(t, 1, <<>>, <<>>, <<>>, "inicio")

\* C17: the CSV text, read back by the standard rules, gives exactly the
\* rows and the cell values that were written; a cell with a comma, a
\* double quote or a line break is written between double quotes with its
\* double quotes doubled, every other cell is written as it is.
C17_CsvIdaEVolta ==
  csvContent.feito
  => /\ LerCSV(csvContent.texto) = dadosCSV
     /\ \A r \in 1..Len(dadosCSV) : \A c \in 1..NumColunas :
          LET cell == dadosCSV[r][c]
              especial == \E i \in 1..Len(cell) :
                            cell[i] \in {",", Aspas, "\n", "\r"} IN
          /\ ~especial => EscaparCelula(cell) = cell
          /\ especial =>
               /\ Head(EscaparCelula(cell)) = Aspas
               /\ EscaparCelula(cell)[Len(EscaparCelula(cell))] = Aspas
               /\ Len(EscaparCelula(cell)) =
                    Len(cell) + 2
                    + Cardinality({i \in 1..Len(cell) : cell[i] = Aspas})

\* C17 witness: a text was written for a data row with a cell that holds a
\* double quote followed by a comma, and one that holds a line break.
C17_Witness ==
  /\ csvContent.feito
  /\ Len(dadosCSV) > 1
  /\ \E c \in 1..NumColunas :
       \E i \in 1..Len(dadosCSV[2][c]) - 1 :
         dadosCSV[2][c][i] = Aspas /\ dadosCSV[2][c][i + 1] = ","
  /\ \E c \in 1..NumColunas :
       \E i \in 1..Len(dadosCSV[2][c]) : dadosCSV[2][c][i] = "\n"

\* C18: when an admin approves or rejects a pending submission with a
\* comment, the stored status is the decided status and the stored comment
\* is the entered comment once the action has returned.
C18_StatusEComentarioJuntos ==
  [][\A a \in Users, l \in LIds, st \in Terminal, oa \in ObsAdmin \ {""} :
       (/\ EhAdmin(a)
        /\ StatusDe(lancamentos, l) = "pendente"
        /\ \/ atualizarStatusLancamento(a, l, st, oa)
           \/ handleApproval(a, l, st = "aprovado", oa))
       => /\ lancamentos'[l].status = st
          /\ lancamentos'[l].observacoes_admin = oa]_vars

\* C20: every stored item has a quantity greater than zero after any
\* sequence of create and edit operations.
C20_QuantidadePositiva ==
  \A i \in IIds : itens[i].existe => itens[i].quantidade > 0

\* C21: product codes are unique: no sequence of product create and edit
\* operations, two admins creating the same code concurrently included,
\* leaves two stored products with the same code.
C21_CodigoUnico ==
  \A p, q \in CIds : (p # q /\ codigos[p] # "-") => codigos[p] # codigos[q]

\* An insert that passed the duplicate check is refused because the other
\* admin stored the same code in between.
C21_Witness ==
  /\ resultado.op = "handleSaveProductInserir"
  /\ ~resultado.ok
  /\ \E p \in CIds : codigos[p] = resultado.antes

\* C22: once a create or edit operation has finished, with success or with
\* an error, no submission exists with zero items.
C22_LancamentoTemItem ==
  \A l \in LIds :
    lancamentos[l].existe
      => \E i \in IIds : itens[i].existe /\ itens[i].lancamento_id = l

\* C23: a submission is deleted only by its owner or an admin, and only
\* while its stored status is pending at the moment of the delete.
C23_SoExcluiPendente ==
  [][\A l \in LIds :
       (lancamentos[l].existe /\ ~lancamentos'[l].existe)
       => /\ lancamentos[l].status = "pendente"
          /\ \A c \in Users :
               (\/ excluirLancamento(c, l)
                \/ PedidoDeleteLancamento(c, l))
               => (c = lancamentos[l].usuario_id \/ EhAdmin(c))]_vars

\* C24: distinct (item, photo) pairs of one submission get distinct entry
\* names, so when every fetch succeeds the archive has exactly one entry
\* per referenced photo.
C24_UmaEntradaPorFoto ==
  entradas.feito
    => Cardinality(entradas.nomes)
         = Cardinality(Referencias(currentSubmission))

\* An archive was built for items that share a product code and carry more
\* than one photo, and for a submission with a two-digit item index.
C24_Witness ==
  /\ entradas.feito
  /\ \/ /\ Len(currentSubmission) = 2
        /\ currentSubmission[1] = currentSubmission[2]
        /\ currentSubmission[1].photos = MaxFotosItem
     \/ /\ Len(currentSubmission) = MaxItensZip
        /\ currentSubmission[1].code = <<"1", "_", "1">>
        /\ currentSubmission[1].photos = MaxFotosItem

\* C25: creating or editing a submission is all-or-nothing: when the
\* operation reports a failure, the stored submissions and items are
\* exactly what they were before it started.
C25_TudoOuNada ==
  [][(/\ resultado'.op \in {"onSubmit", "salvarAlteracoes"}
      /\ ~resultado'.ok)
     => (lancamentos' = lancamentos /\ itens' = itens)]_vars

\* C26: finalizarLancamento reports success only if the submission row and
\* every requested item were persisted.
C26_SucessoComTodosOsItens ==
  [][\A f1, f2 \in {ItemForm(1, 1), ItemFormSemUpload(1, 1)} :
       \A qs \in {<<f1>>, <<f1, f2>>} :
         (finalizarLancamento("u1", "o1", qs) /\ resultado'.ok)
         => /\ lancamentos'[resultado'.alvo].existe
            /\ Cardinality({i \in IIds :
                              /\ itens'[i].existe
                              /\ itens'[i].lancamento_id = resultado'.alvo})
                 = Len(qs)]_vars

\* C27: once a sign-out event has been delivered to RequireAuth and is the
\* most recent authentication fact, protected content is not rendered,
\* whether the initial getUser check resolves before or after that event.
C27_SemConteudoAposSair ==
  (/\ requireAuth.montado
   /\ supabaseAuth.ultimo = "SIGNED_OUT"
   /\ supabaseAuth.eventos = <<>>
   /\ ~supabaseAuth.user)
  => ~(~requireAuth.checando /\ requireAuth.autenticado)

\* C28: a log row of kind 'excluir' for a submission exists only if that
\* submission was deleted: while the submission is stored, no 'excluir' row
\* names it.
C28_LogExcluirSoSeExcluido ==
  \A g \in logs :
    g.tipo_acao = "excluir" => ~lancamentos[g.alvo_id].existe

\* C29: when "export all" starts while some listed submission has no loaded
\* itens, the same invocation loads them and produces the CSV with those
\* submissions' items, instead of failing or leaving them out.
C29_ExportaCarregandoDetalhes ==
  [][\A a \in {"a1", "a2"} :
       (/\ exportarTodosParaCSV(a)
        /\ \E l \in painel[a] : ~detalhes[a].itens[l].carregado)
       => /\ ~arquivo'.erro
          /\ \A l \in painel[a], i \in IIds :
               (/\ ~detalhes[a].itens[l].carregado
                /\ itens[i].existe
                /\ itens[i].lancamento_id = l
                /\ ItemSelectUsing(a, itens[i]))
               => <<l, i>> \in arquivo'.dados]_vars

\* C30: within one submission the upload paths of distinct (item, photo)
\* pairs are distinct, so a list of items that each passed the add-item
\* validation, sent while the storage is reachable, is stored whole.
C30_CaminhosDistintos ==
  [][\A f1, f2 \in {SubmissionItem(1, q, n, TRUE) :
                      q \in Quantidades, n \in 1..MaxFotosItem} :
       (/\ onSubmit("u1", <<f1, f2>>)
        /\ lancamentos'[proxLanc].existe)
       => /\ Caminhos(proxLanc, f1) \cap Caminhos(proxLanc, f2) = {}
          /\ resultado'.ok]_vars

====
